---- MODULE Spec2Model ----
(***************************************************************************)
(* Hypercube: sumcheck, grand-product and Spark arguments over a prime     *)
(* field, sharing one Fiat-Shamir transcript.                              *)
(*                                                                         *)
(* Field elements are the integers 0..P-1 of a small prime field; vectors  *)
(* are sequences (index 1 of a sequence is index 0 of the Rust slice).     *)
(* A Rust panic (failed assert_eq!, index out of bounds, unwrap of None)   *)
(* is the outcome ok = FALSE of the operation that raises it.              *)
(***************************************************************************)
EXTENDS Integers, Sequences, FiniteSets, TLC

VARIABLES pc, args, proof, transcript, v_transcript, result

vars == <<pc, args, proof, transcript, v_transcript, result>>

(***************************************************************************)
(* Bounds of the model.                                                    *)
(***************************************************************************)
PrimeIdx == 0
Primes == <<5, 7, 11, 13>>
\* the field modulus: F = GF(P)
P == Primes[PrimeIdx + 1]
\* coefficients of the input tables range over 0..MaxCoef
MaxCoef == 1
\* transcripts are created from the seeds 0..MaxSeed
MaxSeed == 2
\* univariate polynomials have at most MaxDeg + 1 points
MaxDeg == 3
\* a sumcheck runs over 1..MaxK tables of 2^n entries, n in 1..MaxRounds
MaxK == 3
MaxRounds == 3
\* a grand product runs over a witness of 2^L entries, L in 0..MaxLayers
MaxLayers == 3
\* a Spark matrix is 2^s by 2^s, s in 1..MaxLogSide, with at most MaxNnz
\* nonzero entries
MaxLogSide == 1
MaxNnz == 4
\* a matrix product runs over 2^k by 2^k matrices, k in 1..MaxLogDim
MaxLogDim == 2

F == 0 .. (P - 1)

(***************************************************************************)
(* Prime-field arithmetic (ark_ff::PrimeField).                            *)
(***************************************************************************)
Add(a, b) == (a + b) % P
Sub(a, b) == (a - b) % P
Mul(a, b) == (a * b) % P
\* F::from(i) for u64 and for (possibly negative) i32
FromInt(i) == i % P
\* Field::inverse: None for zero (modelled as 0, callers test for it first)
Inverse(a) == IF a = 0 THEN 0 ELSE CHOOSE y \in F : (a * y) % P = 1

\* a vector given by its entries, as a sequence
Vec(f) == f \o <<>>

\* the element of a one-element set: Only({e(x) : x \in {v}}) is e at the
\* value of v, which is computed once (a let binding of the code)
Only(S) == CHOOSE x \in S : TRUE

RECURSIVE SumSeq(_)
SumSeq(s) == IF s = <<>> THEN 0 ELSE Add(Head(s), SumSeq(Tail(s)))

RECURSIVE ProductSeq(_)
ProductSeq(s) == IF s = <<>> THEN 1 ELSE Mul(Head(s), ProductSeq(Tail(s)))

RECURSIVE ilog2(_)
\* usize::ilog2 (floor of the binary logarithm), for n >= 1
ilog2(n) == IF n <= 1 THEN 0 ELSE 1 + ilog2(n \div 2)

RECURSIVE Pow2(_)
Pow2(n) == IF n = 0 THEN 1 ELSE 2 * Pow2(n - 1)

RECURSIVE next_power_of_two(_)
next_power_of_two(n) == IF n <= 1 THEN 1 ELSE 2 * next_power_of_two((n + 1) \div 2)

(***************************************************************************)
(* multilinear.rs                                                          *)
(***************************************************************************)
\* a pass that appends the scaled table instead of interleaving it
chis_step_blocks(table, r) ==
    Vec([i \in 1 .. 2 * Len(table) |->
        IF i <= Len(table) THEN Mul(Sub(1, r), table[i])
                           ELSE Mul(r, table[i - Len(table)])])

\* one pass of the flat_map of chis: every entry t becomes (1 - r)t, rt
chis_step(table, r) ==
    Vec([i \in 1 .. 2 * Len(table) |->
        IF i % 2 = 1 THEN Mul(Sub(1, r), table[(i + 1) \div 2])
                     ELSE Mul(r, table[(i + 1) \div 2])])

RECURSIVE chis_fold(_, _)
chis_fold(table, point) ==
    IF point = <<>> THEN table
    ELSE Only({chis_fold(next, Tail(point)) : next \in {chis_step(table, Head(point))}})

chis(point) == chis_fold(<<1>>, point)

eval_eq(a, b) ==
    ProductSeq(Vec([i \in 1 .. Len(a) |->
                  Add(Mul(a[i], b[i]), Mul(Sub(1, a[i]), Sub(1, b[i])))]))

\* the assert_eq! on the lengths fails: eval_chis panics
eval_chis_panics(ch, evals) == Len(ch) # Len(evals)

eval_chis(ch, evals) ==
    SumSeq(Vec([i \in 1 .. Len(ch) |-> Mul(ch[i], evals[i])]))

eval_mle_panics(point, evals) == eval_chis_panics(chis(point), evals)

eval_mle(point, evals) == Only({eval_chis(ch, evals) : ch \in {chis(point)}})

pad_next_power_of_two(terms) ==
    Vec([i \in 1 .. next_power_of_two(Len(terms)) |->
        IF i <= Len(terms) THEN terms[i] ELSE 0])

\* a fold that fixes the last variable instead of the first
set_variable_pairs(mle, r) ==
    Vec([i \in 1 .. Len(mle) \div 2 |-> Add(Mul(Sub(1, r), mle[2 * i - 1]), Mul(r, mle[2 * i]))])

\* linearsumcheck.rs set_variable (imported by sumcheck.rs as multilinear::set_variable)
set_variable(mle, r) ==
    LET half == Len(mle) \div 2
    IN Vec([i \in 1 .. half |-> Add(Mul(Sub(1, r), mle[i]), Mul(r, mle[i + half]))])

(***************************************************************************)
(* univariate.rs                                                           *)
(***************************************************************************)
\* the fast path: F::ZERO <= r && r < F::from(points.len())
ule_in_set(points, r) == 0 <= r /\ r < FromInt(Len(points))

RECURSIVE ule_first_loop(_, _, _)
\* the loop "for k in 1..points.len()": <<multiplier, inversions>> after k
ule_first_loop(len, r, k) ==
    IF k = 0 THEN <<1, 1>>
    ELSE Only({<<Mul(prev[1], Sub(r, FromInt(k))), Mul(prev[2], FromInt(0 - k))>> :
                 prev \in {ule_first_loop(len, r, k - 1)}})

\* multiplier *= inversions.inverse().unwrap(), after the first loop
ule_start(len, r) ==
    Only({Mul(first[1], Inverse(first[2])) : first \in {ule_first_loop(len, r, len - 1)}})

ule_inverted(r, i) == Mul(Sub(r, FromInt(i)), FromInt(i))

RECURSIVE ule_multiplier_by_degree(_, _, _)
\* the multiplier with the factor -(d - i) in place of -(length - i)
ule_multiplier_by_degree(len, r, i) ==
    IF i = 0 THEN ule_start(len, r)
    ELSE Mul(ule_multiplier_by_degree(len, r, i - 1),
             Mul(Mul(Sub(r, FromInt(i - 1)), Inverse(ule_inverted(r, i))),
                 FromInt(0 - (len - 1 - i))))

RECURSIVE ule_multiplier(_, _, _)
\* the multiplier when points[i] is added to the total
ule_multiplier(len, r, i) ==
    IF i = 0 THEN ule_start(len, r)
    ELSE Mul(ule_multiplier(len, r, i - 1),
             Mul(Mul(Sub(r, FromInt(i - 1)), Inverse(ule_inverted(r, i))),
                 FromInt(0 - (len - i))))

\* eval_ule panics: points[0] of an empty slice, or inverse().unwrap() of zero
eval_ule_panics(points, r) ==
    /\ ~ule_in_set(points, r)
    /\ \/ Len(points) = 0
       \/ ule_first_loop(Len(points), r, Len(points) - 1)[2] = 0
       \/ \E i \in 1 .. Len(points) - 1 : ule_inverted(r, i) = 0

eval_ule(points, r) ==
    IF ule_in_set(points, r) THEN points[r + 1]
    ELSE SumSeq(Vec([j \in 1 .. Len(points) |->
                   Mul(ule_multiplier(Len(points), r, j - 1), points[j])]))

(***************************************************************************)
(* fiatshamir.rs: the transcript.  ops is the ordered list of operations   *)
(* performed on it (an absorb with the value absorbed, a squeeze with the  *)
(* challenge it returned); st stands for the state of the Merlin sponge,   *)
(* which every absorbed label and message and every squeeze is mixed into. *)
(***************************************************************************)
Labels ==
    <<"sumcheck_claim", "sumcheck_degree", "sumcheck_rounds", "sumcheck_points",
      "sumcheck_challenge", "grand_product_claim", "grand_product_point",
      "grand_product_challenge", "spark_challenge", "spark_gamma", "spark_tau",
      "mat_mult_a", "mat_mult_b", "mat_mult_c", "mat_mult_r1", "mat_mult_r2",
      "begin_append_points", "end_append_points">>

\* the bytes of a label or of a static message, as a number
Bytes(label) == CHOOSE i \in 1 .. Len(Labels) : Labels[i] = label

SpongeMod == P * P

\* merlin's absorb of one item into the sponge state
Mix(st, x) == (3 * st + x + 1) % SpongeMod

\* Transcript::new(label)
Transcript_new(seed) == [ops |-> <<>>, st |-> seed % SpongeMod]

append_message(tr, label, msg) ==
    Only({[ops |-> Append(t.ops, <<"append_message", label, Bytes(msg)>>),
           st |-> Mix(Mix(t.st, Bytes(label)), Bytes(msg))] : t \in {tr}})

\* serialize_compressed of the scalar, then merlin's append_message
append_scalar(tr, label, scalar) ==
    Only({[ops |-> Append(t.ops, <<"append_scalar", label, x>>),
           st |-> Mix(Mix(t.st, Bytes(label)), x)] : t \in {tr}, x \in {scalar}})

RECURSIVE append_each(_, _, _)
append_each(tr, label, points) ==
    IF points = <<>> THEN tr
    ELSE Only({append_each(t, label, rest) :
                 t \in {append_scalar(tr, label, Head(points))}, rest \in {Tail(points)}})

append_points(tr, label, points) ==
    append_message(
        append_each(append_message(tr, label, "begin_append_points"), label, points),
        label, "end_append_points")

\* the squeeze: the sponge state after it, reduced to a field element
squeeze(t, label, st) ==
    [tr |-> [ops |-> Append(t.ops, <<"challenge_scalar", label, st % P>>), st |-> st],
     r |-> st % P]

\* challenge_bytes then from_le_bytes_mod_order: the transcript after the
\* squeeze and the challenge
challenge_scalar(tr, label) ==
    Only({Only({squeeze(t, label, st) : st \in {Mix(Mix(t.st, Bytes(label)), 64)}}) :
            t \in {tr}})

RECURSIVE challenge_scalars(_, _, _)
\* count successive squeezes under one label: the transcript and the list
challenge_scalars(tr, label, count) ==
    IF count = 0 THEN [tr |-> tr, r |-> <<>>]
    ELSE Only({Only({[tr |-> c.tr, r |-> Append(prev.r, c.r)] :
                       c \in {challenge_scalar(prev.tr, label)}}) :
                 prev \in {challenge_scalars(tr, label, count - 1)}})

(***************************************************************************)
(* sumcheck.rs / linearsumcheck.rs                                         *)
(***************************************************************************)
\* the product over the mles at index i of the hypercube half, at t
derive_product(mles, i, t) ==
    LET mle_half == Len(mles[1]) \div 2
    IN ProductSeq(Vec([k \in 1 .. Len(mles) |->
           Add(Mul(mles[k][i], Sub(1, t)), Mul(mles[k][i + mle_half], t))]))

\* round values with g(1) from a sweep of its own, not from the claim
derive_points_direct(mles, last_claim) ==
    LET degree == Len(mles) + 1
        mle_half == Len(mles[1]) \div 2
        sweep(j) == SumSeq(Vec([i \in 1 .. mle_half |-> derive_product(mles, i, FromInt(j))]))
    IN Vec([jj \in 1 .. degree |->
          IF mle_half = 0 THEN 0 ELSE sweep(jj - 1)])

derive_points(mles, last_claim) ==
    LET degree == Len(mles) + 1
        mle_half == Len(mles[1]) \div 2
        sweep(j) == SumSeq(Vec([i \in 1 .. mle_half |-> derive_product(mles, i, FromInt(j))]))
    IN Vec([jj \in 1 .. degree |->
          IF mle_half = 0 THEN 0
          ELSE IF jj = 2 THEN Sub(last_claim, sweep(0))
          ELSE sweep(jj - 1)])

\* one iteration of the loop of prove: the state prev, the challenge c
\* squeezed from it, and the tables with the variable set to c.r
prove_step(prev, i, c, mles) ==
    Only({[tr |-> append_points(c.tr, "sumcheck_points", points),
           mles |-> mles,
           polys |-> Append(prev.polys, points),
           rs |-> Append(prev.rs, c.r)] :
            points \in {derive_points(mles, eval_ule(prev.polys[i], c.r))}})

RECURSIVE prove_round(_, _)
\* the state of SumcheckProof::prove after i rounds of the loop
\* "for i in 1..rounds" (i = 0: before the loop)
prove_round(st0, i) ==
    IF i = 0 THEN st0
    ELSE Only({Only({Only({prove_step(prev, i, c, mles) :
                mles \in {Vec([j \in 1 .. Len(prev.mles) |->
                                  set_variable(prev.mles[j], c.r)])}}) :
            c \in {challenge_scalar(prev.tr, "sumcheck_challenge")}}) :
        prev \in {prove_round(st0, i - 1)}})

\* an end of prove that forgets to set the last variable
prove_finish_unfolded(claim, degree, rounds, st, c) ==
    [ok |-> TRUE, tr |-> c.tr,
     polynomials |-> st.polys,
     final_terms |-> Vec([k \in 1 .. degree |-> st.mles[k][1]]),
     rands |-> Append(st.rs, c.r),
     degree |-> degree, rounds |-> rounds, claim |-> claim]

\* the end of prove: the last challenge c sets the last variable
prove_finish(claim, degree, rounds, st, c) ==
    [ok |-> TRUE, tr |-> c.tr,
     polynomials |-> st.polys,
     final_terms |-> Vec([k \in 1 .. degree |-> set_variable(st.mles[k], c.r)[1]]),
     rands |-> Append(st.rs, c.r),
     degree |-> degree, rounds |-> rounds, claim |-> claim]

SumcheckProof_prove(claim, mles, tr) ==
    LET degree == Len(mles)
        rounds == ilog2(Len(mles[1]))
        t3 == append_scalar(
                  append_scalar(append_scalar(tr, "sumcheck_claim", claim),
                                "sumcheck_degree", FromInt(degree)),
                  "sumcheck_rounds", FromInt(rounds))
    IN Only({Only({
           \* rs[rounds - 1] with rounds = 0: the prover panics
           IF rounds = 0 THEN [ok |-> FALSE, tr |-> t4]
           ELSE Only({Only({prove_finish(claim, degree, rounds, st, c) :
                       c \in {challenge_scalar(st.tr, "sumcheck_challenge")}}) :
                   st \in {prove_round([tr |-> t4, mles |-> mles,
                                        polys |-> <<points>>, rs |-> <<>>],
                                       rounds - 1)}}) :
               t4 \in {append_points(t3, "sumcheck_points", points)}}) :
           points \in {derive_points(mles, claim)}})

\* a panic of the verifier: which check failed, and the transcript so far
Panic(why, tr) == [ok |-> FALSE, why |-> why, tr |-> tr]

\* a claim check that forgets g(1)
claim_check_first_only(claim, poly) == claim = poly[1]

\* assert_eq!(claim, polynomials[0][0] + polynomials[0][1])
claim_check(claim, poly) == claim = Add(poly[1], poly[2])

\* the round assert_eq!: g_{i-1}(r) = g_i(0) + g_i(1)
round_check(prev_poly, r, poly) == eval_ule(prev_poly, r) = Add(poly[1], poly[2])

\* an iteration of the loop of verify that checks the round polynomial but
\* forgets to absorb it
verify_step_without_absorb(polynomials, degree, prev, i, c) ==
    IF Len(polynomials[i + 1]) # degree + 1
    THEN Panic("length", c.tr)
    ELSE IF eval_ule_panics(polynomials[i], c.r)
         THEN Panic("eval_ule", c.tr)
    ELSE IF Len(polynomials[i + 1]) < 2
         THEN Panic("index", c.tr)
    ELSE IF ~round_check(polynomials[i], c.r, polynomials[i + 1])
         THEN Panic("round", c.tr)
    ELSE IF i > Len(prev.rs)
         THEN Panic("index", c.tr)
    ELSE [ok |-> TRUE, why |-> "", tr |-> c.tr, rs |-> [prev.rs EXCEPT ![i] = c.r]]

\* iteration i of the loop of verify, from the state prev and the challenge c
verify_step(polynomials, degree, prev, i, c) ==
    IF Len(polynomials[i + 1]) # degree + 1
    THEN Panic("length", c.tr)
    ELSE IF eval_ule_panics(polynomials[i], c.r)
         THEN Panic("eval_ule", c.tr)
    ELSE IF Len(polynomials[i + 1]) < 2
         THEN Panic("index", c.tr)
    ELSE IF ~round_check(polynomials[i], c.r, polynomials[i + 1])
         THEN Panic("round", c.tr)
    ELSE IF i > Len(prev.rs)
         THEN Panic("index", c.tr)
    ELSE [ok |-> TRUE, why |-> "",
          tr |-> append_points(c.tr, "sumcheck_points", polynomials[i + 1]),
          rs |-> [prev.rs EXCEPT ![i] = c.r]]

RECURSIVE verify_round(_, _, _, _)
\* the state of verify after iteration i of "for i in 1..polynomials.len()"
\* (i = 0: before the loop); a panic ends the run
verify_round(polynomials, degree, st0, i) ==
    IF i = 0 THEN st0
    ELSE Only({IF ~prev.ok THEN prev
               ELSE Only({verify_step(polynomials, degree, prev, i, c) :
                            c \in {challenge_scalar(prev.tr, "sumcheck_challenge")}}) :
                 prev \in {verify_round(polynomials, degree, st0, i - 1)}})

\* the end of verify, after the loop left the state st
verify_finish(claim, polynomials, rounds, st) ==
    IF rounds = 0
    THEN [ok |-> TRUE, why |-> "", tr |-> st.tr, rs |-> st.rs, eval |-> claim]
    ELSE Only({IF rounds > Len(polynomials) THEN Panic("index", c.tr)
               ELSE IF eval_ule_panics(polynomials[rounds], c.r)
                    THEN Panic("eval_ule", c.tr)
               ELSE [ok |-> TRUE, why |-> "", tr |-> c.tr,
                     rs |-> [st.rs EXCEPT ![rounds] = c.r],
                     eval |-> eval_ule(polynomials[rounds], c.r)] :
                 c \in {challenge_scalar(st.tr, "sumcheck_challenge")}})

\* linearsumcheck::verify; SumcheckProof::verify is the same on the fields of self
verify(claim, polynomials, degree, rounds, tr) ==
    LET t3 == append_scalar(
                  append_scalar(append_scalar(tr, "sumcheck_claim", claim),
                                "sumcheck_degree", FromInt(degree)),
                  "sumcheck_rounds", FromInt(rounds))
    IN IF Len(polynomials) = 0 THEN Panic("index", t3)
       ELSE Only({
           IF Len(polynomials[1]) < 2 THEN Panic("index", t4)
           ELSE IF ~claim_check(claim, polynomials[1]) THEN Panic("claim", t4)
           ELSE Only({IF ~st.ok THEN st
                      ELSE verify_finish(claim, polynomials, rounds, st) :
                   st \in {verify_round(polynomials, degree,
                                        [ok |-> TRUE, why |-> "", tr |-> t4,
                                         rs |-> Vec([i \in 1 .. rounds |-> 0])],
                                        Len(polynomials) - 1)}}) :
               t4 \in {append_points(t3, "sumcheck_points", polynomials[1])}})

SumcheckProof_verify(self, tr) ==
    verify(self.claim, self.polynomials, self.degree, self.rounds, tr)

(***************************************************************************)
(* grandproduct.rs.  Its prove and verify call sumcheck::prove and         *)
(* sumcheck::verify; sumcheck.rs holds them as SumcheckProof::prove and     *)
(* SumcheckProof::verify, and linearsumcheck.rs as free functions of the   *)
(* same arguments and the same code.                                       *)
(***************************************************************************)
\* the products of the pairs of a layer
pair_products(last) ==
    Vec([i \in 1 .. Len(last) \div 2 |-> Mul(last[2 * i - 1], last[2 * i])])

RECURSIVE tree_layers(_, _)
\* the layers pushed by compute_tree, the witness first, after n rounds of its loop
tree_layers(witness, n) ==
    IF n = 0 THEN <<witness>>
    ELSE Only({Append(prev, pair_products(prev[Len(prev)])) :
                 prev \in {tree_layers(witness, n - 1)}})

\* num_layers - 1 underflows for a witness of one entry
compute_tree_panics(witness) == ilog2(Len(witness)) = 0

compute_tree(witness) ==
    Only({Vec([i \in 1 .. Len(layers) |-> layers[Len(layers) + 1 - i]]) :
            layers \in {tree_layers(witness, ilog2(Len(witness)) - 1)}})

factor(witness) ==
    [l |-> Vec([i \in 1 .. Len(witness) \div 2 |-> witness[2 * i - 1]]),
     r |-> Vec([i \in 1 .. Len(witness) \div 2 |-> witness[2 * i]])]

\* an iteration that does not push the layer's claim
gp_prove_step_without_claim(prev, sc, left, right, c) ==
    Only({[tr |-> c.tr, claim |-> claim,
           claims |-> prev.claims,
           left_evals |-> Append(prev.left_evals, left),
           right_evals |-> Append(prev.right_evals, right),
           sumcheck_proofs |-> Append(prev.sumcheck_proofs, sc.polynomials),
           z |-> Append(sc.rands, c.r)] :
            claim \in {eval_ule(<<left, right>>, c.r)}})

\* the end of an iteration of the loop of prove: the state prev, the
\* sumcheck proof sc of the layer, its two evaluations and the challenge c
gp_prove_step(prev, sc, left, right, c) ==
    Only({[tr |-> c.tr, claim |-> claim,
           claims |-> Append(prev.claims, claim),
           left_evals |-> Append(prev.left_evals, left),
           right_evals |-> Append(prev.right_evals, right),
           sumcheck_proofs |-> Append(prev.sumcheck_proofs, sc.polynomials),
           z |-> Append(sc.rands, c.r)] :
            claim \in {eval_ule(<<left, right>>, c.r)}})

\* the sumcheck of a layer and what follows it, for the layer's halves lr
gp_prove_sumcheck(prev, lr, sc) ==
    Only({Only({gp_prove_step(prev, sc, left, right, c) :
            c \in {challenge_scalar(
                       append_scalar(append_scalar(sc.tr, "grand_product_point", left),
                                     "grand_product_point", right),
                       "grand_product_challenge")}}) :
        left \in {eval_mle(sc.rands, lr.l)}, right \in {eval_mle(sc.rands, lr.r)}})

RECURSIVE gp_prove_layer(_, _, _)
\* the state of prove after iteration i of "for i in 1..layers.len()"
gp_prove_layer(layers, st0, i) ==
    IF i = 0 THEN st0
    ELSE Only({Only({Only({gp_prove_sumcheck(prev, lr, sc) :
                sc \in {SumcheckProof_prove(prev.claim, mles, prev.tr)}}) :
            mles \in {<<chis(prev.z), lr.l, lr.r>>}}) :
        prev \in {gp_prove_layer(layers, st0, i - 1)}, lr \in {factor(layers[i + 1])}})

\* prove (and GrandProductProof::prove, the same code as a constructor)
gp_prove(witness, claim, tr) ==
    IF compute_tree_panics(witness) THEN [ok |-> FALSE, tr |-> tr]
    ELSE Only({Only({
             [ok |-> TRUE, tr |-> st.tr, claims |-> st.claims,
              left_evals |-> st.left_evals, right_evals |-> st.right_evals,
              sumcheck_proofs |-> st.sumcheck_proofs] :
             st \in {gp_prove_layer(layers,
                        [tr |-> c.tr,
                         claim |-> eval_ule(<<layers[1][1], layers[1][2]>>, c.r),
                         claims |-> <<claim, eval_ule(<<layers[1][1], layers[1][2]>>, c.r)>>,
                         left_evals |-> <<layers[1][1]>>,
                         right_evals |-> <<layers[1][2]>>,
                         sumcheck_proofs |-> <<>>, z |-> <<c.r>>],
                        Len(layers) - 1)}}) :
         layers \in {compute_tree(witness)},
         c \in {challenge_scalar(append_scalar(tr, "grand_product_claim", claim),
                                 "grand_product_challenge")}})

\* a root check that looks at the left evaluation only
root_check_left_only(claims, left_evals, right_evals) ==
    claims[1] = left_evals[1] \/ claims[1] = Mul(left_evals[1], right_evals[1])

\* assert_eq!(claims[0], left_evals[0] * right_evals[0])
root_check(claims, left_evals, right_evals) ==
    claims[1] = Mul(left_evals[1], right_evals[1])

\* assert_eq!(expected, eq * left_evals[i] * right_evals[i])
layer_check(expected, z, rands, left, right) ==
    expected = Mul(Mul(eval_eq(z, rands), left), right)

\* the end of an iteration of the loop of verify: the state prev, the
\* outcome sc of the layer's sumcheck verifier and the challenge c
gp_verify_step(prev, sc, left, right, c) ==
    IF Len(sc.rs) < Len(prev.z) THEN Panic("index", c.tr)
    ELSE IF ~layer_check(sc.eval, prev.z, sc.rs, left, right)
         THEN Panic("layer", c.tr)
    ELSE [ok |-> TRUE, why |-> "", tr |-> c.tr,
          z |-> Append(sc.rs, c.r),
          rhos |-> Append(prev.rhos, c.r)]

\* what follows the sumcheck verifier in an iteration of the loop of verify
gp_verify_sumcheck(prev, sc, left, right) ==
    IF ~sc.ok THEN Panic(sc.why, sc.tr)
    ELSE Only({gp_verify_step(prev, sc, left, right, c) :
            c \in {challenge_scalar(
                       append_scalar(append_scalar(sc.tr, "grand_product_point", left),
                                     "grand_product_point", right),
                       "grand_product_challenge")}})

RECURSIVE gp_verify_layer(_, _, _, _, _, _)
\* the state of verify after iteration i of "for i in 1..claims.len() - 1"
gp_verify_layer(claims, left_evals, right_evals, sumcheck_proofs, st0, i) ==
    IF i = 0 THEN st0
    ELSE Only({
        IF ~prev.ok THEN prev
        ELSE IF i > Len(sumcheck_proofs) THEN Panic("index", prev.tr)
        ELSE Only({gp_verify_sumcheck(prev, sc, left_evals[i + 1], right_evals[i + 1]) :
                sc \in {verify(claims[i + 1], sumcheck_proofs[i], 3, i, prev.tr)}}) :
        prev \in {gp_verify_layer(claims, left_evals, right_evals,
                                  sumcheck_proofs, st0, i - 1)}})

\* verify (and GrandProductProof::verify, the same code on the fields of self);
\* rhos lists the challenges squeezed under "grand_product_challenge"
gp_verify(claims, left_evals, right_evals, sumcheck_proofs, tr) ==
    IF Len(claims) = 0 THEN Panic("index", tr)
    ELSE Only({
        IF Len(left_evals) # Len(right_evals) THEN Panic("length", t1)
        ELSE IF Len(left_evals) # Len(claims) - 1 THEN Panic("length", t1)
        ELSE IF Len(left_evals) = 0 THEN Panic("index", t1)
        ELSE IF ~root_check(claims, left_evals, right_evals) THEN Panic("root", t1)
        ELSE Only({Only({
                 IF ~st.ok THEN st
                 ELSE [ok |-> TRUE, why |-> "", tr |-> st.tr,
                       claim |-> claims[Len(claims)], z |-> st.z, rhos |-> st.rhos] :
                 st \in {gp_verify_layer(claims, left_evals, right_evals,
                            sumcheck_proofs,
                            [ok |-> TRUE, why |-> "", tr |-> c.tr, z |-> <<c.r>>,
                             rhos |-> <<c.r>>],
                            Len(claims) - 2)}}) :
             c \in {challenge_scalar(t1, "grand_product_challenge")}}) :
        t1 \in {append_scalar(tr, "grand_product_claim", claims[1])}})

(***************************************************************************)
(* spark.rs                                                                *)
(***************************************************************************)
RECURSIVE densify_fold(_, _, _, _)
\* the fold of densify over the first n cells of the matrix
densify_fold(matrix, row_count, col_count, n) ==
    IF n = 0 THEN [vals |-> <<>>, rows |-> <<>>, cols |-> <<>>]
    ELSE Only({IF matrix[n] # 0
               THEN [vals |-> Append(acc.vals, matrix[n]),
                     rows |-> Append(acc.rows, (n - 1) \div col_count),
                     cols |-> Append(acc.cols, (n - 1) % col_count)]
               ELSE acc :
                 acc \in {densify_fold(matrix, row_count, col_count, n - 1)}})

densify(matrix, row_count, col_count) ==
    densify_fold(matrix, row_count, col_count, Len(matrix))

\* to_bits(F::from(i as u64), size): the low size bits of i, as field elements
to_bits(i, size) == Vec([j \in 1 .. size |-> (i \div Pow2(j - 1)) % 2])

fingerprint(k, v, t, gamma, tau) ==
    Sub(Add(Add(Mul(k, Mul(gamma, gamma)), Mul(v, gamma)), t), tau)

\* the number of accesses to each address (row_final, col_final)
counts(addrs, memory) ==
    Vec([a \in 1 .. memory |->
        FromInt(Cardinality({i \in 1 .. Len(addrs) : addrs[i] = a - 1}))])

\* the fingerprints of the init tuples, then of the access tuples
products(chi, addrs, e, reads, memory, gamma, tau) ==
    Vec([i \in 1 .. memory + Len(addrs) |->
        IF i <= memory
        THEN fingerprint(FromInt(i - 1), eval_chis(chi, to_bits(i - 1, memory)), 0,
                         gamma, tau)
        ELSE fingerprint(FromInt(addrs[i - memory]), e[i - memory],
                         Add(reads[i - memory], 1), gamma, tau)])

\* the proof assembled at the end of prove
spark_proof(vals, rows, cols, memory, e_rx, e_ry, primary, row_proof, col_proof) ==
    [primary_sumcheck_proof |->
         [polynomials |-> primary.polynomials, rands |-> primary.rands,
          final_terms |-> primary.final_terms, degree |-> primary.degree,
          rounds |-> primary.rounds, claim |-> primary.claim],
     row_grand_product_proof |->
         [claims |-> row_proof.claims, left_evals |-> row_proof.left_evals,
          right_evals |-> row_proof.right_evals,
          sumcheck_proofs |-> row_proof.sumcheck_proofs],
     col_grand_product_proof |->
         [claims |-> col_proof.claims, left_evals |-> col_proof.left_evals,
          right_evals |-> col_proof.right_evals,
          sumcheck_proofs |-> col_proof.sumcheck_proofs],
     vals |-> vals, e_rx |-> e_rx, e_ry |-> e_ry,
     read_rows |-> Vec([i \in 1 .. Len(rows) |-> FromInt(rows[i])]),
     read_cols |-> Vec([i \in 1 .. Len(cols) |-> FromInt(cols[i])]),
     counts_rows |-> counts(rows, memory),
     counts_cols |-> counts(cols, memory),
     memory |-> memory]

\* the two grand products of prove, after the challenges g (gamma) and t (tau)
spark_grand_products(vals, rows, cols, memory, chi_rx, chi_ry, e_rx, e_ry, primary, g, t) ==
    Only({Only({Only({
        IF ~row_proof.ok \/ ~col_proof.ok THEN [ok |-> FALSE, tr |-> t.tr]
        ELSE [ok |-> TRUE, tr |-> col_proof.tr,
              self |-> spark_proof(vals, rows, cols, memory, e_rx, e_ry, primary,
                                   row_proof, col_proof)] :
            col_proof \in {gp_prove(pad_next_power_of_two(c_products),
                                    ProductSeq(c_products), row_proof.tr)}}) :
        row_proof \in {gp_prove(pad_next_power_of_two(r_products),
                                ProductSeq(r_products), t.tr)}}) :
    r_products \in {products(chi_rx, rows, e_rx,
                             Vec([i \in 1 .. Len(rows) |-> FromInt(rows[i])]),
                             memory, g.r, t.r)},
    c_products \in {products(chi_ry, rows, e_ry,
                             Vec([i \in 1 .. Len(cols) |-> FromInt(cols[i])]),
                             memory, g.r, t.r)}})

\* the primary sumcheck of prove and what follows it
spark_primary(vals, rows, cols, memory, chi_rx, chi_ry, e_rx, e_ry, tr) ==
    Only({
        \* ilog2 of 0, or rs[rounds - 1] with rounds = 0
        IF ~primary.ok THEN [ok |-> FALSE, tr |-> primary.tr]
        ELSE IF \E i \in 1 .. Len(rows) : rows[i] >= memory \/ cols[i] >= memory
             THEN [ok |-> FALSE, tr |-> primary.tr]
        ELSE Only({Only({
                 spark_grand_products(vals, rows, cols, memory, chi_rx, chi_ry,
                                      e_rx, e_ry, primary, g, t) :
                 t \in {challenge_scalar(g.tr, "spark_tau")}}) :
             g \in {challenge_scalar(primary.tr, "spark_gamma")}}) :
        primary \in {SumcheckProof_prove(
                        SumSeq(Vec([i \in 1 .. Len(vals) |->
                                      Mul(Mul(vals[i], e_rx[i]), e_ry[i])])),
                        <<vals, e_rx, e_ry>>, tr)}})

SparkProof_prove(vals, rows, cols, memory, tr) ==
    IF memory = 0 THEN [ok |-> FALSE, tr |-> tr]
    ELSE Only({
        \* eval_chis on a table of 2^m entries and memory bits
        IF Pow2(ilog2(memory)) # memory THEN [ok |-> FALSE, tr |-> r.tr]
        ELSE Only({Only({
                 spark_primary(vals, rows, cols, memory, chi_rx, chi_ry, e_rx, e_ry,
                               r.tr) :
                 e_rx \in {Vec([i \in 1 .. Len(rows) |->
                                  eval_chis(chi_rx, to_bits(rows[i], memory))])},
                 e_ry \in {Vec([i \in 1 .. Len(cols) |->
                                  eval_chis(chi_ry, to_bits(cols[i], memory))])}}) :
             chi_rx \in {chis(SubSeq(r.r, 1, ilog2(memory)))},
             chi_ry \in {chis(SubSeq(r.r, ilog2(memory) + 1, 2 * ilog2(memory)))}}) :
        r \in {challenge_scalars(tr, "spark_challenge", ilog2(memory) * 2)}})

\* the four assert_eq! of verify on the outcome sc of the sumcheck verifier
spark_checks(self, final_terms, sc) ==
    IF ProductSeq(final_terms) # sc.eval THEN Panic("product", sc.tr)
    ELSE IF eval_mle_panics(sc.rs, self.vals) THEN Panic("length", sc.tr)
    ELSE IF Len(final_terms) < 1 THEN Panic("index", sc.tr)
    ELSE IF eval_mle(sc.rs, self.vals) # final_terms[1] THEN Panic("vals", sc.tr)
    ELSE IF eval_mle_panics(sc.rs, self.e_rx) THEN Panic("length", sc.tr)
    ELSE IF Len(final_terms) < 2 THEN Panic("index", sc.tr)
    ELSE IF eval_mle(sc.rs, self.e_rx) # final_terms[2] THEN Panic("e_rx", sc.tr)
    ELSE IF eval_mle_panics(sc.rs, self.e_ry) THEN Panic("length", sc.tr)
    ELSE IF Len(final_terms) < 3 THEN Panic("index", sc.tr)
    ELSE IF eval_mle(sc.rs, self.e_ry) # final_terms[3] THEN Panic("e_ry", sc.tr)
    ELSE Only({Only({[ok |-> TRUE, why |-> "", tr |-> t.tr, rz |-> sc.rs,
                      eval |-> sc.eval, gamma |-> g.r, tau |-> t.r] :
                 t \in {challenge_scalar(g.tr, "spark_tau")}}) :
             g \in {challenge_scalar(sc.tr, "spark_gamma")}})

SparkProof_verify(self, tr) ==
    IF self.memory = 0 THEN Panic("ilog2", tr)
    ELSE Only({Only({IF ~sc.ok THEN Panic(sc.why, sc.tr)
                     ELSE spark_checks(self, self.primary_sumcheck_proof.final_terms, sc) :
                 sc \in {SumcheckProof_verify(self.primary_sumcheck_proof, r.tr)}}) :
             r \in {challenge_scalars(tr, "spark_challenge", ilog2(self.memory) * 2)}})

(***************************************************************************)
(* Inputs.  Table(len, a, b, c, k) is the k-th table of a family of        *)
(* tables over the field, indexed by three coefficients.                   *)
(***************************************************************************)
Table(len, a, b, c, k) ==
    Vec([i \in 1 .. len |-> (a * (i - 1) * (i - 1) + (b + k) * (i - 1) + c * k + c) % P])

Coefs == 0 .. MaxCoef

Seeds == 0 .. MaxSeed

None == [ok |-> FALSE]

\* the sum over the hypercube of the product of the tables
ProductSum(mles) ==
    SumSeq(Vec([i \in 1 .. Len(mles[1]) |-> ProductSeq(Vec([k \in 1 .. Len(mles) |-> mles[k][i]]))]))

(***************************************************************************)
(* The sumcheck run of the tests (sumcheck.rs test, linearsumcheck.rs      *)
(* quadratic and cubic): prove on one transcript, verify on a second one   *)
(* created alike; between the two the proof may be altered.                *)
(***************************************************************************)
SumcheckInit ==
    /\ pc = "start"
    /\ \E K \in 1 .. MaxK, n \in 1 .. MaxRounds, a \in Coefs, b \in Coefs, c \in Coefs,
          delta \in Coefs, seed \in Seeds :
          LET mles == Vec([k \in 1 .. K |-> Table(Pow2(n), a, b, c, k)])
          IN /\ args = [proto |-> "sumcheck", mles |-> mles,
                        claim |-> Add(ProductSum(mles), delta),
                        delta |-> delta, tamper |-> <<>>]
             /\ transcript = Transcript_new(seed)
             /\ v_transcript = Transcript_new(seed)
    /\ proof = None
    /\ result = None

SumcheckProve ==
    /\ args.proto = "sumcheck"
    /\ pc = "start"
    /\ \E p \in {SumcheckProof_prove(args.claim, args.mles, transcript)} :
          /\ proof' = [polynomials |-> p.polynomials, rands |-> p.rands,
                       final_terms |-> p.final_terms, degree |-> p.degree,
                       rounds |-> p.rounds, claim |-> p.claim]
          /\ transcript' = p.tr
    /\ pc' = "proved"
    /\ UNCHANGED <<args, v_transcript, result>>

\* one value of one round polynomial is replaced by a different field element
SumcheckTamper ==
    /\ args.proto = "sumcheck"
    /\ pc = "proved"
    /\ \E j \in 1 .. Len(proof.polynomials), idx \in 1 .. proof.degree + 1, v \in F :
          /\ v # proof.polynomials[j][idx]
          /\ proof' = [proof EXCEPT !.polynomials[j][idx] = v]
          /\ args' = [args EXCEPT !.tamper = <<j - 1, idx - 1>>]
    /\ pc' = "tampered"
    /\ UNCHANGED <<transcript, v_transcript, result>>

SumcheckVerify ==
    /\ args.proto = "sumcheck"
    /\ pc \in {"proved", "tampered"}
    /\ result' = SumcheckProof_verify(proof, v_transcript)
    /\ v_transcript' = result'.tr
    /\ pc' = "verified"
    /\ UNCHANGED <<args, proof, transcript>>

SumcheckNext == SumcheckProve \/ SumcheckTamper \/ SumcheckVerify

SpecSumcheck == SumcheckInit /\ [][SumcheckNext]_vars

Honest == args.tamper = <<>>

\* C1: sumcheck completeness.  After prove and verify on transcripts created
\* alike, for tables of equal length 2^n (n >= 1) and the true claim, the
\* verifier passes every check and returns (r, E) with E the product of the
\* tables' multilinear extensions at r.
C1_SumcheckCompleteness ==
    (pc = "verified" /\ Honest /\ args.delta = 0) =>
        /\ result.ok
        /\ Len(result.rs) = ilog2(Len(args.mles[1]))
        /\ result.eval = ProductSeq(Vec([k \in 1 .. Len(args.mles) |->
                                       eval_mle(result.rs, args.mles[k])]))

C1_Witness ==
    /\ pc = "verified" /\ Honest /\ args.delta = 0
    /\ Len(args.mles) = 3 /\ Len(args.mles[1]) = 8
    /\ result.ok /\ result.eval # 0
    /\ \E i \in 1 .. 3 : result.rs[i] >= 4

Tampered == pc = "verified" /\ ~Honest

\* C4 as claimed: the verifier rejects a proof in which any one value of any
\* round polynomial has been replaced by a different field element.
C4_TamperRejected == Tampered => ~result.ok

\* C4 amended: a change of the value at index 0 or 1 of any round polynomial
\* is rejected (by the claim check in round 0, by the round check later); a
\* change at an index >= 2 of the last round polynomial passes every check of
\* the verifier, which only returns a different evaluation for its caller to
\* check; a change at an index >= 2 of an earlier round polynomial passes
\* the check of its own round and can only be rejected by a later round check.
C4_TamperAtZeroOneRejected ==
    Tampered =>
        LET j == args.tamper[1]
            idx == args.tamper[2]
        IN /\ idx <= 1 =>
                /\ ~result.ok
                /\ result.why = (IF j = 0 THEN "claim" ELSE "round")
           /\ (idx >= 2 /\ j = proof.rounds - 1) => result.ok
           /\ (idx >= 2 /\ j < proof.rounds - 1) => (result.ok \/ result.why = "round")

C4_Witness ==
    /\ Tampered /\ args.tamper[1] = 2 /\ args.tamper[2] = 1
    /\ ~result.ok /\ result.why = "round"
    /\ Len(args.mles) = 3

(***************************************************************************)
(* eval_ule on its own (univariate.rs test_ule): a list of d + 1 values,   *)
(* 1 <= d <= MaxDeg, is evaluated at a field element.                      *)
(***************************************************************************)
RECURSIVE SeqsOf(_, _)
\* the sequences of length n over S
SeqsOf(S, n) ==
    IF n = 0 THEN {<<>>}
    ELSE {Append(q, x) : q \in SeqsOf(S, n - 1), x \in S}

UleInit ==
    /\ pc = "start"
    /\ \E d \in 1 .. MaxDeg : \E points \in SeqsOf(F, d + 1), r \in F :
          args = [points |-> points, r |-> r]
    /\ proof = None
    /\ result = None
    /\ transcript = None
    /\ v_transcript = None

UleEval ==
    /\ pc = "start"
    /\ result' = [ok |-> ~eval_ule_panics(args.points, args.r),
                  val |-> eval_ule(args.points, args.r)]
    /\ pc' = "done"
    /\ UNCHANGED <<args, proof, transcript, v_transcript>>

UleNext == UleEval

SpecUle == UleInit /\ [][UleNext]_vars

\* the Lagrange basis polynomial of node i among the nodes 0..d, at r
LagrangeBasis(d, i, r) ==
    ProductSeq(Vec([k \in 1 .. d + 1 |->
        IF k - 1 = i THEN 1
        ELSE Mul(Sub(r, FromInt(k - 1)), Inverse(Sub(FromInt(i), FromInt(k - 1))))]))

\* the value at r of the polynomial of degree <= d through (i, points[i])
Interpolate(points, r) ==
    SumSeq(Vec([j \in 1 .. Len(points) |->
              Mul(points[j], LagrangeBasis(Len(points) - 1, j - 1, r))]))

\* C10: eval_ule(points, r), for d + 1 >= 2 points and any field element r,
\* is the value at r of the polynomial of degree <= d through (i, p_i),
\* i = 0..d; at r = k in 0..d it is p_k.
C10_UleInterpolates ==
    pc = "done" =>
        /\ result.ok
        /\ result.val = Interpolate(args.points, args.r)
        /\ args.r < Len(args.points) => result.val = args.points[args.r + 1]

C10_Witness ==
    /\ pc = "done" /\ Len(args.points) = 4 /\ args.r = 4
    /\ args.points = <<0, 1, 3, 2>> /\ result.val = Interpolate(args.points, 4)
    /\ result.val # 0

(***************************************************************************)
(* The grand-product run of grandproduct_test: prove on one transcript,    *)
(* verify on a second one created alike; between the two one value of the  *)
(* proof may be altered.                                                   *)
(***************************************************************************)
GrandProductInit ==
    /\ pc = "start"
    /\ \E L \in 0 .. MaxLayers, a \in Coefs, b \in Coefs, c \in Coefs,
          delta \in Coefs, seed \in Seeds :
          LET witness == Table(Pow2(L), a, b, c, 1)
          IN /\ args = [proto |-> "grandproduct", witness |-> witness,
                        claim |-> Add(ProductSeq(witness), delta),
                        delta |-> delta, tamper |-> <<>>]
             /\ transcript = Transcript_new(seed)
             /\ v_transcript = Transcript_new(seed)
    /\ proof = None
    /\ result = None

GrandProductProve ==
    /\ args.proto = "grandproduct"
    /\ pc = "start"
    /\ \E p \in {gp_prove(args.witness, args.claim, transcript)} :
          /\ proof' = IF p.ok
                      THEN [ok |-> TRUE, claims |-> p.claims,
                            left_evals |-> p.left_evals,
                            right_evals |-> p.right_evals,
                            sumcheck_proofs |-> p.sumcheck_proofs]
                      ELSE None
          /\ transcript' = p.tr
          /\ pc' = IF p.ok THEN "proved" ELSE "panicked"
    /\ UNCHANGED <<args, v_transcript, result>>

\* one claim or one left or right evaluation is replaced by a different
\* field element
GrandProductTamper ==
    /\ args.proto = "grandproduct"
    /\ pc = "proved"
    /\ \E v \in F :
          \/ \E i \in 1 .. Len(proof.claims) :
                /\ v # proof.claims[i]
                /\ proof' = [proof EXCEPT !.claims[i] = v]
                /\ args' = [args EXCEPT !.tamper = <<"claims", i - 1>>]
          \/ \E i \in 1 .. Len(proof.left_evals) :
                /\ v # proof.left_evals[i]
                /\ proof' = [proof EXCEPT !.left_evals[i] = v]
                /\ args' = [args EXCEPT !.tamper = <<"left_evals", i - 1>>]
          \/ \E i \in 1 .. Len(proof.right_evals) :
                /\ v # proof.right_evals[i]
                /\ proof' = [proof EXCEPT !.right_evals[i] = v]
                /\ args' = [args EXCEPT !.tamper = <<"right_evals", i - 1>>]
    /\ pc' = "tampered"
    /\ UNCHANGED <<transcript, v_transcript, result>>

GrandProductVerify ==
    /\ args.proto = "grandproduct"
    /\ pc \in {"proved", "tampered"}
    /\ result' = gp_verify(proof.claims, proof.left_evals, proof.right_evals,
                           proof.sumcheck_proofs, v_transcript)
    /\ v_transcript' = result'.tr
    /\ pc' = "verified"
    /\ UNCHANGED <<args, proof, transcript>>

GrandProductNext == GrandProductProve \/ GrandProductTamper \/ GrandProductVerify

SpecGrandProduct == GrandProductInit /\ [][GrandProductNext]_vars

\* C2: grand-product completeness.  For every witness whose length is a
\* power of two (one entry included) and the true product as claim, prove
\* then verify on a transcript created alike passes every assertion and
\* returns (claim, z) with claim the witness's extension at z.
C2_AnyPowerOfTwo ==
    (pc \in {"panicked", "verified"} /\ Honest /\ args.delta = 0) =>
        /\ pc = "verified"
        /\ result.ok
        /\ result.claim = eval_mle(result.z, args.witness)

\* Where C2 fails: the prover panics on a witness of one entry and on no
\* other; for 2^L entries with L >= 1 and the true product as claim, verify
\* passes every assertion and returns (claim, z), z of length L, with
\* claim = eval_mle(z, witness).
GrandProductCompleteFromTwo ==
    /\ (pc = "verified" /\ Honest /\ args.delta = 0) =>
          /\ result.ok
          /\ Len(result.z) = ilog2(Len(args.witness))
          /\ result.claim = eval_mle(result.z, args.witness)
    /\ pc = "panicked" => Len(args.witness) = 1

GrandProductCompleteWitness ==
    /\ pc = "verified" /\ Honest /\ args.delta = 0
    /\ Len(args.witness) = 8 /\ \A i \in 1 .. 8 : args.witness[i] # 0
    /\ result.ok /\ result.claim # 0
    /\ \E i \in 1 .. 3 : result.z[i] >= 2

\* the value the protocol gives the claim after layer i (0-based), from the
\* proof's evaluations of that layer and the verifier's own challenge
LinkedClaim(i) ==
    Add(Mul(Sub(1, result.rhos[i + 1]), proof.left_evals[i + 1]),
        Mul(result.rhos[i + 1], proof.right_evals[i + 1]))

\* C3: in every accepting run of verify, each claims[i+1] (the claim of the
\* next layer's sumcheck, and the claim returned at the end) equals
\* (1 - rho_i) * l_i + rho_i * r_i for the proof's l_i, r_i and the challenge
\* rho_i the verifier squeezed after them; other proofs are rejected.
C3_LayersLinked ==
    (pc = "verified" /\ result.ok) =>
        /\ \A i \in 0 .. Len(proof.left_evals) - 1 : proof.claims[i + 2] = LinkedClaim(i)
        /\ result.claim = LinkedClaim(Len(proof.left_evals) - 1)

(***************************************************************************)
(* The sumcheck runs and the grand-product runs together: the protocols    *)
(* whose verifier replays the prover's transcript.                         *)
(***************************************************************************)
ReplayInit == SumcheckInit \/ GrandProductInit

ReplayNext == SumcheckNext \/ GrandProductNext

SpecReplay == ReplayInit /\ [][ReplayNext]_vars

\* s is an initial part of t
IsPrefix(s, t) == Len(s) <= Len(t) /\ SubSeq(t, 1, Len(s)) = s

\* C7: on a proof produced by the prover, the sumcheck verifier and the
\* grand-product verifier perform the prover's sequence of transcript
\* operations (labels, absorbed values, squeezes and the challenges they
\* return): the verifier's sequence never departs from the prover's, it is
\* the whole of it whenever the verifier runs to its end (as it does for every
\* sumcheck proof, and for the grand-product proof of a true claim), and the
\* challenge vector the sumcheck verifier returns is the proof's rands.
C7_TranscriptReplay ==
    (pc = "verified" /\ Honest) =>
        /\ IsPrefix(v_transcript.ops, transcript.ops)
        /\ result.ok => v_transcript = transcript
        /\ args.proto = "sumcheck" => (result.ok /\ result.rs = proof.rands)
        /\ (args.proto = "grandproduct" /\ args.delta = 0) => result.ok

C7_Witness ==
    /\ pc = "verified" /\ Honest /\ result.ok
    /\ args.proto = "grandproduct" /\ Len(args.witness) = 8
    /\ v_transcript.ops = transcript.ops
    /\ Len(transcript.ops) > 20
    /\ \E i \in 1 .. Len(transcript.ops) :
          /\ transcript.ops[i][1] = "challenge_scalar"
          /\ transcript.ops[i][2] = "sumcheck_challenge"
          /\ transcript.ops[i][3] >= 2

(***************************************************************************)
(* The Spark run of test_spark: a square matrix is densified, proved on    *)
(* one transcript and verified on a second one created alike, with the     *)
(* number of cells as memory size; between the two one value of a          *)
(* grand-product proof may be altered.                                     *)
(***************************************************************************)
\* a matrix of cells entries whose nnz nonzero entries lie at the cells
\* off, off + step, ... (mod cells)
SparseMatrix(cells, nnz, off, step, a, b) ==
    Vec([i \in 1 .. cells |->
        IF \E j \in 0 .. nnz - 1 : (off + j * step) % cells = i - 1
        THEN LET j == CHOOSE j \in 0 .. nnz - 1 : (off + j * step) % cells = i - 1
             IN 1 + ((a * j + b) % (P - 1))
        ELSE 0])

SparkInit ==
    /\ pc = "start"
    /\ \E s \in 1 .. MaxLogSide, off \in Coefs, step \in {1, 3}, a \in Coefs,
          b \in Coefs, seed \in Seeds :
          \E nnz \in 0 .. MaxNnz :
              /\ nnz <= Pow2(2 * s)
              /\ LET matrix == SparseMatrix(Pow2(2 * s), nnz, off, step, a, b)
                     d == densify(matrix, Pow2(s), Pow2(s))
                 IN args = [matrix |-> matrix, vals |-> d.vals, rows |-> d.rows,
                            cols |-> d.cols, memory |-> Len(matrix),
                            tamper |-> <<>>]
              /\ transcript = Transcript_new(seed)
              /\ v_transcript = Transcript_new(seed)
    /\ proof = None
    /\ result = None

SparkProve ==
    /\ pc = "start"
    /\ \E p \in {SparkProof_prove(args.vals, args.rows, args.cols, args.memory,
                                  transcript)} :
          /\ proof' = IF p.ok THEN p.self ELSE None
          /\ transcript' = p.tr
          /\ pc' = IF p.ok THEN "proved" ELSE "panicked"
    /\ UNCHANGED <<args, v_transcript, result>>

\* one claim of the row or of the column grand-product proof is replaced by
\* a different field element
SparkTamper ==
    /\ pc = "proved"
    /\ \E v \in F :
          \/ \E i \in 1 .. Len(proof.row_grand_product_proof.claims) :
                /\ v # proof.row_grand_product_proof.claims[i]
                /\ proof' = [proof EXCEPT !.row_grand_product_proof.claims[i] = v]
                /\ args' = [args EXCEPT !.tamper = <<"row", i - 1>>]
          \/ \E i \in 1 .. Len(proof.col_grand_product_proof.claims) :
                /\ v # proof.col_grand_product_proof.claims[i]
                /\ proof' = [proof EXCEPT !.col_grand_product_proof.claims[i] = v]
                /\ args' = [args EXCEPT !.tamper = <<"col", i - 1>>]
    /\ pc' = "tampered"
    /\ UNCHANGED <<transcript, v_transcript, result>>

SparkVerify ==
    /\ pc \in {"proved", "tampered"}
    /\ result' = SparkProof_verify(proof, v_transcript)
    /\ v_transcript' = result'.tr
    /\ pc' = "verified"
    /\ UNCHANGED <<args, proof, transcript>>

SparkNext == SparkProve \/ SparkTamper \/ SparkVerify

SpecSpark == SparkInit /\ [][SparkNext]_vars

\* C5: Spark completeness.  For every matrix, whatever its number of nonzero
\* entries, densified and proved with a power-of-two memory size, verify on
\* a transcript created alike passes: the product of the primary sumcheck's
\* final terms is the expected evaluation and the three final terms are the
\* extensions of vals, e_rx, e_ry at the sumcheck's point.
C5_SparkCompleteness ==
    (pc \in {"panicked", "verified"} /\ Honest) =>
        /\ pc = "verified"
        /\ result.ok
        /\ ProductSeq(proof.primary_sumcheck_proof.final_terms) = result.eval
        /\ eval_mle(result.rz, proof.vals) = proof.primary_sumcheck_proof.final_terms[1]
        /\ eval_mle(result.rz, proof.e_rx) = proof.primary_sumcheck_proof.final_terms[2]
        /\ eval_mle(result.rz, proof.e_ry) = proof.primary_sumcheck_proof.final_terms[3]

\* the outcome of the grand-product verifier on a proof
GrandProductAccepts(gp, tr) ==
    gp_verify(gp.claims, gp.left_evals, gp.right_evals, gp.sumcheck_proofs, tr)

\* C6: SparkProof::verify accepts only if the row and the column
\* grand-product proofs verify (on the transcript after tau, the row one
\* first), and it rejects a proof whose row or column grand-product proof
\* has been altered.
C6_SparkChecksGrandProducts ==
    (pc = "verified" /\ result.ok) =>
        LET row == GrandProductAccepts(proof.row_grand_product_proof, v_transcript)
        IN /\ Honest
           /\ row.ok
           /\ GrandProductAccepts(proof.col_grand_product_proof, row.tr).ok

\* C8: after an honest prove and verify from transcripts created alike, the
\* verifier's sequence of transcript operations is the prover's, the row
\* and the column grand product's operations after gamma and tau included.
C8_SparkVerifierMirrorsProver ==
    (pc = "verified" /\ Honest /\ result.ok) => v_transcript.ops = transcript.ops

(***************************************************************************)
(* chis on its own: the table of a point of n field elements,              *)
(* 0 <= n <= MaxRounds.                                                    *)
(***************************************************************************)
ChisInit ==
    /\ pc = "start"
    /\ \E n \in 0 .. MaxRounds : \E point \in SeqsOf(F, n) : args = [point |-> point]
    /\ proof = None
    /\ result = None
    /\ transcript = None
    /\ v_transcript = None

ChisEval ==
    /\ pc = "start"
    /\ result' = [ok |-> TRUE, table |-> chis(args.point)]
    /\ pc' = "done"
    /\ UNCHANGED <<args, proof, transcript, v_transcript>>

ChisNext == ChisEval

SpecChis == ChisInit /\ [][ChisNext]_vars

\* bit i of the index b of n bits, r_0 paired with the least significant bit
BitLittleEndian(b, n, i) == (b \div Pow2(i)) % 2

\* bit i of the index b of n bits, r_0 paired with the most significant bit
BitBigEndian(b, n, i) == (b \div Pow2(n - 1 - i)) % 2

\* the product over i of b_i r_i + (1 - b_i)(1 - r_i), for the bits b_i = bit(i)
EqProduct(r, bit(_)) ==
    ProductSeq(Vec([i \in 1 .. Len(r) |->
        IF bit(i - 1) = 1 THEN r[i] ELSE Sub(1, r[i])]))

\* C11 as claimed: chis(r)[b] is the product over i of
\* b_i r_i + (1 - b_i)(1 - r_i) with b_i bit i of b, least significant first
\* (b = sum of b_i 2^i).
C11_ChisLittleEndian ==
    pc = "done" =>
        /\ Len(result.table) = Pow2(Len(args.point))
        /\ \A b \in 0 .. Pow2(Len(args.point)) - 1 :
              LET bit(i) == BitLittleEndian(b, Len(args.point), i)
              IN result.table[b + 1] = EqProduct(args.point, bit)

\* C11 amended: chis(r) has 2^n entries and chis(r)[b] is the product over i
\* of b_i r_i + (1 - b_i)(1 - r_i) with b_i the bits of b most significant
\* first (b = sum of b_i 2^(n-1-i)): r_0 pairs with the most significant bit
\* of the index.
C11_ChisBigEndian ==
    pc = "done" =>
        /\ Len(result.table) = Pow2(Len(args.point))
        /\ \A b \in 0 .. Pow2(Len(args.point)) - 1 :
              LET bit(i) == BitBigEndian(b, Len(args.point), i)
              IN result.table[b + 1] = EqProduct(args.point, bit)

C11_Witness ==
    /\ pc = "done" /\ args.point = <<2, 3, 4>>
    /\ result.table[2] = Mul(Mul(Sub(1, 2), Sub(1, 3)), 4)
    /\ result.table[2] # Mul(Mul(2, Sub(1, 3)), Sub(1, 4))

(***************************************************************************)
(* The sumcheck run with a malformed proof: between prove and verify one   *)
(* round polynomial gains or loses a value, or the list of round           *)
(* polynomials gains or loses a polynomial.                                *)
(***************************************************************************)
\* the round polynomial j loses its last value or gains a value v
SumcheckResize ==
    /\ args.proto = "sumcheck"
    /\ pc = "proved"
    /\ \E j \in 1 .. Len(proof.polynomials) :
          /\ \/ proof' = [proof EXCEPT !.polynomials[j] =
                              SubSeq(proof.polynomials[j], 1, proof.degree)]
             \/ \E v \in F :
                   proof' = [proof EXCEPT !.polynomials[j] =
                                 Append(proof.polynomials[j], v)]
          /\ args' = [args EXCEPT !.tamper = <<"length", j - 1>>]
    /\ pc' = "tampered"
    /\ UNCHANGED <<transcript, v_transcript, result>>

\* the list of round polynomials loses its last polynomial or gains a
\* polynomial of degree + 1 values, (x, y, 0, ..., 0)
SumcheckRoundCount ==
    /\ args.proto = "sumcheck"
    /\ pc = "proved"
    /\ \/ proof' = [proof EXCEPT !.polynomials =
                        SubSeq(proof.polynomials, 1, proof.rounds - 1)]
       \/ \E x \in F, y \in F :
             proof' = [proof EXCEPT !.polynomials =
                 Append(proof.polynomials,
                        Vec([i \in 1 .. proof.degree + 1 |->
                               IF i = 1 THEN x ELSE IF i = 2 THEN y ELSE 0]))]
    /\ args' = [args EXCEPT !.tamper = <<"rounds", Len(proof'.polynomials)>>]
    /\ pc' = "tampered"
    /\ UNCHANGED <<transcript, v_transcript, result>>

MalformedNext ==
    SumcheckProve \/ SumcheckResize \/ SumcheckRoundCount \/ SumcheckVerify

SpecMalformed == SumcheckInit /\ [][MalformedNext]_vars

\* C12: the verifier rejects a proof in which a round polynomial, of any
\* round j in 0..n-1 (round 0 included), does not have exactly degree + 1
\* values.
C12_WrongLengthRejected ==
    (Tampered /\ args.tamper[1] = "length") => ~result.ok

\* Where C12 fails: a wrong length is rejected in every round but round 0,
\* by the assertion on the length.
WrongLengthRejectedAfterRoundZero ==
    (Tampered /\ args.tamper[1] = "length" /\ args.tamper[2] >= 1) =>
        (~result.ok /\ result.why = "length")

\* C13: the verifier rejects a proof whose number of round polynomials is
\* not rounds, a shorter list and a longer one alike, and returns no
\* (point, evaluation) for it.
C13_RoundCountChecked ==
    (Tampered /\ args.tamper[1] = "rounds") => ~result.ok

\* Where C13 fails: a list of rounds - 1 polynomials is rejected (index out
\* of bounds); a list of rounds + 1 polynomials is accepted whenever the last
\* one passes its round check, and then the evaluation returned is one of
\* polynomials[rounds - 1].
RoundCountShorterRejected ==
    (Tampered /\ args.tamper[1] = "rounds") =>
        /\ args.tamper[2] < proof.rounds => (~result.ok /\ result.why = "index")
        /\ args.tamper[2] > proof.rounds =>
              (result.ok \/ result.why = "round")

(***************************************************************************)
(* The zero-round sumcheck: K tables of one entry each.  The prover is run *)
(* on them; the verifier is run on a proof with rounds = 0 that carries no *)
(* round polynomial or one round polynomial (x, y, 0, ..., 0).             *)
(***************************************************************************)
ZeroRoundInit ==
    /\ pc = "start"
    /\ \E K \in 1 .. MaxK, c \in Coefs, delta \in Coefs, seed \in Seeds :
          LET mles == Vec([k \in 1 .. K |-> Table(1, 0, 0, c, k)])
          IN /\ args = [proto |-> "sumcheck", mles |-> mles,
                        claim |-> Add(ProductSum(mles), delta),
                        delta |-> delta, tamper |-> <<>>]
             /\ transcript = Transcript_new(seed)
             /\ v_transcript = Transcript_new(seed)
    /\ proof = None
    /\ result = None

ZeroRoundProve ==
    /\ pc = "start"
    /\ \E p \in {SumcheckProof_prove(args.claim, args.mles, transcript)} :
          /\ proof' = IF p.ok
                      THEN [polynomials |-> p.polynomials, rands |-> p.rands,
                            final_terms |-> p.final_terms, degree |-> p.degree,
                            rounds |-> p.rounds, claim |-> p.claim]
                      ELSE None
          /\ transcript' = p.tr
          /\ pc' = IF p.ok THEN "proved" ELSE "panicked"
    /\ UNCHANGED <<args, v_transcript, result>>

\* a proof of the claim with rounds = 0 is handed to the verifier
ZeroRoundProof ==
    /\ pc = "start"
    /\ \E polynomials \in
              {<<>>} \cup {<<Vec([i \in 1 .. Len(args.mles) + 1 |->
                                   IF i = 1 THEN x ELSE IF i = 2 THEN y ELSE 0])>> :
                             x \in F, y \in F} :
          proof' = [polynomials |-> polynomials, rands |-> <<>>,
                    final_terms |-> Vec([k \in 1 .. Len(args.mles) |-> args.mles[k][1]]),
                    degree |-> Len(args.mles), rounds |-> 0, claim |-> args.claim]
    /\ pc' = "proved"
    /\ UNCHANGED <<args, transcript, v_transcript, result>>

ZeroRoundNext == ZeroRoundProve \/ ZeroRoundProof \/ SumcheckVerify

SpecZeroRound == ZeroRoundInit /\ [][ZeroRoundNext]_vars

\* the verifier squeezed no challenge
NoSqueeze(tr) == \A i \in 1 .. Len(tr.ops) : tr.ops[i][1] # "challenge_scalar"

\* C14: for every proof with rounds = 0 and claim C, verification returns
\* (empty challenge vector, C); it needs no round polynomial, runs no round
\* check and squeezes no challenge.
C14_ZeroRoundTrivial ==
    (pc = "verified" /\ proof.rounds = 0) =>
        /\ result.ok
        /\ result.rs = <<>>
        /\ result.eval = proof.claim
        /\ NoSqueeze(v_transcript)

\* Where C14 fails: the verifier panics on a zero-round proof without round
\* polynomial, rejects one whose polynomials[0] does not sum to the claim,
\* and returns (empty, C) without a squeeze for the others; the prover
\* panics on tables of one entry.
ZeroRoundNeedsPolynomial ==
    /\ (pc = "verified" /\ proof.rounds = 0) =>
          /\ NoSqueeze(v_transcript)
          /\ proof.polynomials = <<>> => (~result.ok /\ result.why = "index")
          /\ proof.polynomials # <<>> =>
                IF claim_check(proof.claim, proof.polynomials[1])
                THEN result.ok /\ result.rs = <<>> /\ result.eval = proof.claim
                ELSE ~result.ok /\ result.why = "claim"
    /\ pc # "proved" \/ proof.rounds = 0

(***************************************************************************)
(* matmul.rs                                                               *)
(***************************************************************************)
\* a fold with the weights of the two halves exchanged
set_variable_first_half_swapped(mle, r) ==
    LET half == Len(mle) \div 2
    IN Vec([i \in 1 .. half |-> Add(Mul(r, mle[i]), Mul(Sub(1, r), mle[i + half]))])

set_variable_first_half(mle, r) ==
    LET half == Len(mle) \div 2
    IN Vec([i \in 1 .. half |-> Add(Mul(Sub(1, r), mle[i]), Mul(r, mle[i + half]))])

set_variable_second_half(mle, r) ==
    Vec([i \in 1 .. Len(mle) \div 2 |->
        Add(Mul(Sub(1, r), mle[2 * i - 1]), Mul(r, mle[2 * i]))])

RECURSIVE fold_first_half(_, _)
\* r1.iter().fold(a.to_vec(), |a, &r| set_variable_first_half(&a, r))
fold_first_half(mle, rs) ==
    IF rs = <<>> THEN mle
    ELSE Only({fold_first_half(next, Tail(rs)) :
                 next \in {set_variable_first_half(mle, Head(rs))}})

RECURSIVE fold_second_half(_, _)
\* r2.iter().fold(b.to_vec(), |b, &r| set_variable_second_half(&b, r))
fold_second_half(mle, rs) ==
    IF rs = <<>> THEN mle
    ELSE Only({fold_second_half(next, Tail(rs)) :
                 next \in {set_variable_second_half(mle, Head(rs))}})

\* the three absorbs and the two lists of challenges that open prove and verify
matmul_challenges(a, b, c, tr) ==
    Only({Only({[tr |-> r2.tr, r1 |-> r1.r, r2 |-> r2.r] :
            r2 \in {challenge_scalars(r1.tr, "mat_mult_r2", ilog2(Len(c)) \div 2)}}) :
        r1 \in {challenge_scalars(
                    append_points(append_points(append_points(tr, "mat_mult_a", a),
                                                "mat_mult_b", b),
                                  "mat_mult_c", c),
                    "mat_mult_r1", ilog2(Len(c)) \div 2)}})

\* matmul::prove: (claim, polys, rs) and the transcript it leaves
matmul_prove(a, b, c, tr) ==
    Only({Only({Only({
        IF ~p.ok THEN [ok |-> FALSE, tr |-> p.tr]
        ELSE [ok |-> TRUE, tr |-> p.tr, claim |-> claim,
              polys |-> p.polynomials, rs |-> p.rands] :
            p \in {SumcheckProof_prove(claim,
                       <<fold_first_half(a, ch.r1), fold_second_half(b, ch.r2)>>,
                       ch.tr)}}) :
        claim \in {eval_mle(ch.r1 \o ch.r2, c)}}) :
    ch \in {matmul_challenges(a, b, c, tr)}})

\* assert_eq!(expected_eval, eval_mle(&fa_r, &a) * eval_mle(&fb_r, &b))
matmul_check(expected_eval, r1, r2, r3, a, b) ==
    expected_eval = Mul(eval_mle(r1 \o r3, a), eval_mle(r3 \o r2, b))

\* matmul::verify
matmul_verify(a, b, c, claim, sumcheck_polys, tr) ==
    Only({Only({
        IF ~sc.ok THEN sc
        ELSE IF eval_mle_panics(ch.r1 \o sc.rs, a) \/ eval_mle_panics(sc.rs \o ch.r2, b)
             THEN Panic("length", sc.tr)
        ELSE IF ~matmul_check(sc.eval, ch.r1, ch.r2, sc.rs, a, b)
             THEN Panic("product", sc.tr)
        ELSE [ok |-> TRUE, why |-> "", tr |-> sc.tr, r1 |-> ch.r1, r2 |-> ch.r2,
              r3 |-> sc.rs, eval |-> sc.eval] :
            sc \in {verify(claim, sumcheck_polys, 2, ilog2(Len(c)) \div 2, ch.tr)}}) :
    ch \in {matmul_challenges(a, b, c, tr)}})

(***************************************************************************)
(* The run of the test matrix: c = a b for square matrices in row-major    *)
(* order, prove on one transcript, verify on a second one created alike.   *)
(***************************************************************************)
\* the product of two dim by dim matrices in row-major order
MatrixProduct(a, b, dim) ==
    Vec([idx \in 1 .. dim * dim |->
        SumSeq(Vec([m \in 1 .. dim |->
            Mul(a[((idx - 1) \div dim) * dim + m],
                b[(m - 1) * dim + ((idx - 1) % dim) + 1])]))])

MatMulInit ==
    /\ pc = "start"
    /\ \E k \in 1 .. MaxLogDim, a1 \in Coefs, b1 \in Coefs, c1 \in Coefs,
          a2 \in Coefs, b2 \in Coefs, c2 \in Coefs, seed \in Seeds :
          LET a == Table(Pow2(2 * k), a1, b1, c1, 1)
              b == Table(Pow2(2 * k), a2, b2, c2, 2)
          IN /\ args = [proto |-> "matmul", a |-> a, b |-> b,
                        c |-> MatrixProduct(a, b, Pow2(k)), tamper |-> <<>>]
             /\ transcript = Transcript_new(seed)
             /\ v_transcript = Transcript_new(seed)
    /\ proof = None
    /\ result = None

MatMulProve ==
    /\ pc = "start"
    /\ \E p \in {matmul_prove(args.a, args.b, args.c, transcript)} :
          /\ proof' = IF p.ok
                      THEN [claim |-> p.claim, polys |-> p.polys, rs |-> p.rs]
                      ELSE None
          /\ transcript' = p.tr
          /\ pc' = IF p.ok THEN "proved" ELSE "panicked"
    /\ UNCHANGED <<args, v_transcript, result>>

MatMulVerify ==
    /\ pc = "proved"
    /\ result' = matmul_verify(args.a, args.b, args.c, proof.claim, proof.polys,
                               v_transcript)
    /\ v_transcript' = result'.tr
    /\ pc' = "verified"
    /\ UNCHANGED <<args, proof, transcript>>

MatMulNext == MatMulProve \/ MatMulVerify

SpecMatMul == MatMulInit /\ [][MatMulNext]_vars

\* C15: matrix-multiplication completeness.  For square 2^k by 2^k matrices
\* a, b (k >= 1, 4 by 4 included) and c = a b, prove then verify on a
\* transcript created alike passes the final check
\* expected_eval = eval_mle(r1 ++ r3, a) * eval_mle(r3 ++ r2, b), whatever
\* the challenges.
C15_MatMulCompleteness ==
    pc \in {"panicked", "verified"} =>
        /\ pc = "verified"
        /\ result.ok
        /\ matmul_check(result.eval, result.r1, result.r2, result.r3, args.a, args.b)

\* Where C15 fails: 2 by 2 matrices always pass; a 4 by 4 run fails on the
\* final check and nowhere else, the verifier having replayed the prover's
\* transcript.
MatMulCompleteTwoByTwo ==
    /\ pc # "panicked"
    /\ pc = "verified" =>
          /\ Len(args.a) = 4 => result.ok
          /\ ~result.ok => result.why = "product"
          /\ v_transcript = transcript
          /\ result.ok => result.r3 = proof.rs

(***************************************************************************)
(* What the Spark prover of SpecSpark and the grand-product prover of      *)
(* SpecGrandProduct did, read from the proof and from the transcript.      *)
(***************************************************************************)
\* the challenges squeezed from tr under label, in order
ChallengesOf(tr, label) ==
    LET squeezes == SelectSeq(tr.ops, LAMBDA op : op[1] = "challenge_scalar" /\ op[2] = label)
    IN Vec([i \in 1 .. Len(squeezes) |-> squeezes[i][3]])

\* the position of the first squeeze on tr (past the end if there is none)
FirstSqueeze(tr) ==
    CHOOSE i \in 1 .. Len(tr.ops) + 1 :
        /\ i = Len(tr.ops) + 1 \/ tr.ops[i][1] = "challenge_scalar"
        /\ \A j \in 1 .. i - 1 : tr.ops[j][1] # "challenge_scalar"

\* the tables of rx and of ry, from the prover's challenges
ChiRx == chis(SubSeq(ChallengesOf(transcript, "spark_challenge"), 1, ilog2(args.memory)))

ChiRy ==
    chis(SubSeq(ChallengesOf(transcript, "spark_challenge"),
                ilog2(args.memory) + 1, 2 * ilog2(args.memory)))

\* C16: in SparkProof::prove, e_rx[i] = chis(rx)[rows[i]] and
\* e_ry[i] = chis(ry)[cols[i]] for every access i, and the init value of
\* every address a is chis(rx)[a].
C16_AccessValuesAreEq ==
    pc = "proved" =>
        /\ \A i \in 1 .. Len(args.rows) :
              /\ proof.e_rx[i] = ChiRx[args.rows[i] + 1]
              /\ proof.e_ry[i] = ChiRy[args.cols[i] + 1]
        /\ \A a \in 0 .. args.memory - 1 :
              eval_chis(ChiRx, to_bits(a, args.memory)) = ChiRx[a + 1]

\* What the code computes instead: e_rx[i] is the sum of the entries
\* chis(rx)[j] over the bits j set in rows[i] (zero for rows[i] = 0).
AccessValuesAreBitSums ==
    pc = "proved" =>
        \A i \in 1 .. Len(args.rows) :
            /\ proof.e_rx[i] =
                   SumSeq(Vec([j \in 1 .. args.memory |->
                       IF (args.rows[i] \div Pow2(j - 1)) % 2 = 1 THEN ChiRx[j] ELSE 0]))
            /\ args.rows[i] = 0 => proof.e_rx[i] = 0

\* C17: the grand-product proofs inside an honest Spark proof are valid
\* ones: the claim handed to the grand-product prover is the product of the
\* padded witness (the product of the root pair), and the grand-product
\* verifier, run after tau on the row proof and then on the column proof,
\* accepts both.
C17_SparkGrandProductsValid ==
    (pc = "verified" /\ Honest /\ result.ok) =>
        LET row == proof.row_grand_product_proof
            col == proof.col_grand_product_proof
            row_run == GrandProductAccepts(row, v_transcript)
        IN /\ root_check(row.claims, row.left_evals, row.right_evals)
           /\ root_check(col.claims, col.left_evals, col.right_evals)
           /\ row_run.ok
           /\ GrandProductAccepts(col, row_run.tr).ok

\* Where C17 holds: when memory + nnz is a power of two nothing is padded
\* and both grand-product proofs verify.
SparkGrandProductsValidUnpadded ==
    (pc = "verified" /\ Honest /\ result.ok /\ Len(args.vals) = args.memory) =>
        LET row_run == GrandProductAccepts(proof.row_grand_product_proof, v_transcript)
        IN /\ row_run.ok
           /\ GrandProductAccepts(proof.col_grand_product_proof, row_run.tr).ok

\* C18: prover and verifier absorb vals, rows and cols (one item for each
\* entry at least) before the first challenge is squeezed.
C18_SparkAbsorbsMatrix ==
    /\ pc # "start" => FirstSqueeze(transcript) - 1 >= 3 * Len(args.vals)
    /\ pc = "verified" => FirstSqueeze(v_transcript) - 1 >= 3 * Len(args.vals)

\* the root pair of the proof gp is absorbed into tr after the claim and
\* before the first squeeze, if tr has a squeeze
RootAbsorbedBeforeSqueeze(tr, gp) ==
    FirstSqueeze(tr) <= Len(tr.ops) =>
        /\ tr.ops[1] = <<"append_scalar", "grand_product_claim", gp.claims[1]>>
        /\ \E i \in 2 .. FirstSqueeze(tr) - 1 : \E j \in i + 1 .. FirstSqueeze(tr) - 1 :
              /\ tr.ops[i][1] = "append_scalar" /\ tr.ops[i][3] = gp.left_evals[1]
              /\ tr.ops[j][1] = "append_scalar" /\ tr.ops[j][3] = gp.right_evals[1]

\* C19: in the grand product the root pair (root[0], root[1]) is absorbed
\* after the claim and before the first challenge is squeezed, by the prover
\* and by the verifier.
C19_RootPairAbsorbed ==
    /\ (pc \in {"proved", "verified"} /\ Honest) =>
          RootAbsorbedBeforeSqueeze(transcript, proof)
    /\ (pc = "verified" /\ Honest) => RootAbsorbedBeforeSqueeze(v_transcript, proof)

\* C20: the witness of the column grand product is made of the fingerprints
\* of the init tuples (a, v_a, 0), a < memory, and for every access i of the
\* tuple with the address cols[i] and the value e_ry[i]; the claim of the
\* column proof is the product of these fingerprints.
C20_ColumnCheckSymmetric ==
    pc = "proved" =>
        proof.col_grand_product_proof.claims[1] =
            ProductSeq(products(ChiRy, args.cols, proof.e_ry, proof.read_cols,
                                args.memory,
                                ChallengesOf(transcript, "spark_gamma")[1],
                                ChallengesOf(transcript, "spark_tau")[1]))

\* What the code builds: the row witness has the addresses rows[i], and the
\* column witness has the addresses rows[i] too.
ColumnCheckUsesRows ==
    pc = "proved" =>
        /\ proof.row_grand_product_proof.claims[1] =
               ProductSeq(products(ChiRx, args.rows, proof.e_rx, proof.read_rows,
                                   args.memory,
                                   ChallengesOf(transcript, "spark_gamma")[1],
                                   ChallengesOf(transcript, "spark_tau")[1]))
        /\ proof.col_grand_product_proof.claims[1] =
               ProductSeq(products(ChiRy, args.rows, proof.e_ry, proof.read_cols,
                                   args.memory,
                                   ChallengesOf(transcript, "spark_gamma")[1],
                                   ChallengesOf(transcript, "spark_tau")[1]))

\* the read timestamps of the claim: access i (counted from 0) has t_i = i
AccessIndices(n) == Vec([i \in 1 .. n |-> FromInt(i - 1)])

\* C21: in the row memory check the tuple of access i is
\* (rows[i], e_rx[i], t_i + 1) with the read timestamp t_i = i, the index of
\* the access, each tuple (a, v, t) being fingerprinted as
\* a gamma^2 + v gamma + t - tau; the claim of the row proof is the product
\* of these fingerprints and of those of the init tuples.
C21_RowTimestampIsAccessIndex ==
    pc = "proved" =>
        proof.row_grand_product_proof.claims[1] =
            ProductSeq(products(ChiRx, args.rows, proof.e_rx,
                                AccessIndices(Len(args.rows)), args.memory,
                                ChallengesOf(transcript, "spark_gamma")[1],
                                ChallengesOf(transcript, "spark_tau")[1]))

\* What the code builds: the read timestamp of access i is the address
\* rows[i] (read_rows), so the tuple is (rows[i], e_rx[i], rows[i] + 1).
RowTimestampIsAddress ==
    pc = "proved" =>
        /\ proof.read_rows = Vec([i \in 1 .. Len(args.rows) |-> FromInt(args.rows[i])])
        /\ proof.row_grand_product_proof.claims[1] =
               ProductSeq(products(ChiRx, args.rows, proof.e_rx, proof.read_rows,
                                   args.memory,
                                   ChallengesOf(transcript, "spark_gamma")[1],
                                   ChallengesOf(transcript, "spark_tau")[1]))

\* C22: the grand-product verifier rejects every proof whose claims[0] is
\* not left_evals[0] * right_evals[0], on the root assertion, having absorbed
\* the claim and nothing else: no challenge is squeezed and no sumcheck is
\* verified before.
C22_RootCheckFirst ==
    (pc = "verified" /\ args.proto = "grandproduct"
        /\ proof.claims[1] # Mul(proof.left_evals[1], proof.right_evals[1])) =>
        /\ ~result.ok
        /\ result.why = "root"
        /\ NoSqueeze(v_transcript)
        /\ SubSeq(v_transcript.ops, Len(v_transcript.ops), Len(v_transcript.ops)) =
               <<<<"append_scalar", "grand_product_claim", proof.claims[1]>>>>
        /\ Len(v_transcript.ops) = 1

C22_Witness ==
    /\ pc = "verified" /\ args.proto = "grandproduct"
    /\ ~Honest /\ args.tamper = <<"claims", 0>> /\ Len(args.witness) = 8
    /\ proof.claims[1] = proof.left_evals[1]
    /\ proof.claims[1] # Mul(proof.left_evals[1], proof.right_evals[1])
    /\ ~result.ok /\ result.why = "root"

\* the product of the tables' multilinear extensions at the point rs
ProductAt(rs, mles) ==
    ProductSeq(Vec([k \in 1 .. Len(mles) |-> eval_mle(rs, mles[k])]))

\* C23: the proof of SumcheckProof::prove for tables f_0..f_{K-1} of equal
\* length 2^n (n >= 1) has final_terms[k] = eval_mle(rands, f_k) for every k,
\* and when the claim is true the product of the final terms is the
\* evaluation that verify returns.
C23_FinalTerms ==
    /\ (pc \in {"proved", "verified"} /\ args.proto = "sumcheck" /\ Honest) =>
          /\ Len(proof.final_terms) = Len(args.mles)
          /\ Len(proof.rands) = ilog2(Len(args.mles[1]))
          /\ \A k \in 1 .. Len(args.mles) :
                proof.final_terms[k] = eval_mle(proof.rands, args.mles[k])
    /\ (pc = "verified" /\ args.proto = "sumcheck" /\ Honest /\ args.delta = 0) =>
          /\ result.ok
          /\ ProductSeq(proof.final_terms) = result.eval

C23_Witness ==
    /\ pc = "verified" /\ args.proto = "sumcheck" /\ Honest /\ args.delta = 0
    /\ Len(args.mles) = 2 /\ Len(args.mles[1]) = 4
    /\ proof.rands[1] # 0 /\ proof.rands[2] # 0
    /\ proof.final_terms[1] # proof.final_terms[2]
    /\ proof.final_terms[1] # args.mles[1][1]
    /\ result.ok
    /\ result.eval = Mul(proof.final_terms[1], proof.final_terms[2])
    /\ result.eval # 0

\* the product over the challenges of the Lagrange basis polynomial of the
\* node 1 among the nodes 0..d
BasisAtOne(d, rs) ==
    ProductSeq(Vec([j \in 1 .. Len(rs) |-> LagrangeBasis(d, 1, rs[j])]))

\* C24: for any claim C, true or false, and tables of equal length 2^n
\* (n >= 1) the round polynomials of the prover satisfy g_0(0) + g_0(1) = C
\* and g_j(0) + g_j(1) = g_{j-1}(r_{j-1}) for j = 1..n-1, so verify passes
\* every round check on the prover's output; the error delta of a false claim
\* is carried through the value at 1 of every round polynomial and appears in
\* the returned evaluation alone, which is the product of the f_k(r) plus
\* delta times the product of the basis polynomials of the node 1 at the r_j.
C24_RoundConsistency ==
    /\ (pc \in {"proved", "verified"} /\ args.proto = "sumcheck" /\ Honest) =>
          /\ Len(proof.polynomials) = ilog2(Len(args.mles[1]))
          /\ proof.claim = args.claim
          /\ claim_check(args.claim, proof.polynomials[1])
          /\ \A j \in 2 .. Len(proof.polynomials) :
                round_check(proof.polynomials[j - 1], proof.rands[j - 1],
                            proof.polynomials[j])
    /\ (pc = "verified" /\ args.proto = "sumcheck" /\ Honest) =>
          /\ result.ok
          /\ result.rs = proof.rands
          /\ result.eval =
                Add(ProductAt(result.rs, args.mles),
                    Mul(args.delta, BasisAtOne(Len(args.mles), result.rs)))

C24_Witness ==
    /\ pc = "verified" /\ args.proto = "sumcheck" /\ Honest /\ args.delta # 0
    /\ Len(args.mles) = 2 /\ Len(args.mles[1]) >= 4
    /\ args.claim # ProductSum(args.mles)
    /\ claim_check(args.claim, proof.polynomials[1])
    /\ round_check(proof.polynomials[1], proof.rands[1], proof.polynomials[2])
    /\ result.ok
    /\ result.eval # ProductAt(result.rs, args.mles)

(***************************************************************************)
(* One fold on its own: a table of length 2^n, 1 <= n <= MaxRounds, and a  *)
(* point of n field elements; the first coordinate is set by set_variable  *)
(* and by set_variable_first_half.                                         *)
(***************************************************************************)
FoldInit ==
    /\ pc = "start"
    /\ \E n \in 1 .. MaxRounds, a \in Coefs, b \in Coefs, c \in Coefs :
          \E point \in SeqsOf(F, n) :
              args = [mle |-> Table(Pow2(n), a, b, c, 1), point |-> point]
    /\ proof = None
    /\ result = None
    /\ transcript = None
    /\ v_transcript = None

FoldEval ==
    /\ pc = "start"
    /\ result' = [ok |-> TRUE,
                  low |-> set_variable(args.mle, Head(args.point)),
                  first_half |-> set_variable_first_half(args.mle, Head(args.point))]
    /\ pc' = "done"
    /\ UNCHANGED <<args, proof, transcript, v_transcript>>

FoldNext == FoldEval

SpecFold == FoldInit /\ [][FoldNext]_vars

\* the fold of the claim: entry i is (1 - r) * mle[i] + r * mle[i + len/2]
LowFold(mle, r) ==
    Vec([i \in 1 .. Len(mle) \div 2 |->
        Add(Mul(Sub(1, r), mle[i]), Mul(r, mle[i + Len(mle) \div 2]))])

\* C25: for every table of length 2^n (n >= 1) and every point
\* (r_0..r_{n-1}) the fold with entry i = (1 - r_0) * mle[i] +
\* r_0 * mle[i + len/2], which set_variable and set_variable_first_half both
\* compute, has length 2^(n-1), and the fold at (r_1..r_{n-1}) evaluates to
\* what the table evaluates to at (r_0..r_{n-1}).
C25_FoldCommutesWithEval ==
    (pc = "done" /\ "low" \in DOMAIN result) =>
        /\ result.low = LowFold(args.mle, Head(args.point))
        /\ result.first_half = LowFold(args.mle, Head(args.point))
        /\ Len(result.low) = Pow2(Len(args.point) - 1)
        /\ Len(result.first_half) = Pow2(Len(args.point) - 1)
        /\ eval_mle(Tail(args.point), result.low) = eval_mle(args.point, args.mle)
        /\ eval_mle(Tail(args.point), result.first_half) = eval_mle(args.point, args.mle)

C25_Witness ==
    /\ pc = "done" /\ "low" \in DOMAIN result
    /\ Len(args.point) = 3 /\ Len(args.mle) = 8
    /\ args.point[1] \notin {0, 1} /\ args.point[2] # 0 /\ args.point[3] # 0
    /\ args.mle[1] # args.mle[5]
    /\ Len(result.low) = 4
    /\ result.low \notin {SubSeq(args.mle, 1, 4), SubSeq(args.mle, 5, 8)}
    /\ eval_mle(Tail(args.point), result.low) = eval_mle(args.point, args.mle)
    /\ eval_mle(args.point, args.mle) # 0

\* C26: for a witness of length 2^L (L >= 1) and the claim C the prover
\* returns L + 1 claims, the first of them C, L left and L right
\* evaluations and L - 1 sumcheck proofs; the sumcheck proof of layer i
\* (1 <= i <= L - 1) has exactly i round polynomials of 4 values each.
C26_GrandProductShape ==
    (pc = "proved" /\ args.proto = "grandproduct") =>
        LET L == ilog2(Len(args.witness))
        IN /\ L >= 1
           /\ Len(proof.claims) = L + 1
           /\ proof.claims[1] = args.claim
           /\ Len(proof.left_evals) = L
           /\ Len(proof.right_evals) = L
           /\ Len(proof.sumcheck_proofs) = L - 1
           /\ \A i \in 1 .. L - 1 :
                 /\ Len(proof.sumcheck_proofs[i]) = i
                 /\ \A j \in 1 .. i : Len(proof.sumcheck_proofs[i][j]) = 4

C26_Witness ==
    /\ pc = "proved" /\ args.proto = "grandproduct"
    /\ Len(args.witness) = 8
    /\ Len(proof.claims) = 4 /\ proof.claims[1] = args.claim
    /\ Len(proof.left_evals) = 3 /\ Len(proof.right_evals) = 3
    /\ Len(proof.sumcheck_proofs) = 2
    /\ Len(proof.sumcheck_proofs[1]) = 1 /\ Len(proof.sumcheck_proofs[2]) = 2
    /\ Len(proof.sumcheck_proofs[2][2]) = 4

(***************************************************************************)
(* eval_ule at every degree below the characteristic: d + 1 points of a    *)
(* table of the family, 1 <= d <= P - 1, and any field element r.          *)
(***************************************************************************)
UleFullInit ==
    /\ pc = "start"
    /\ \E d \in 1 .. P - 1, a \in Coefs, b \in Coefs, c \in Coefs, r \in F :
          args = [points |-> Table(d + 1, a, b, c, 1), r |-> r]
    /\ proof = None
    /\ result = None
    /\ transcript = None
    /\ v_transcript = None

UleFullNext == UleEval

SpecUleFull == UleFullInit /\ [][UleFullNext]_vars

\* C27: for every list of d + 1 points, 1 <= d < characteristic, and every
\* field element r, eval_ule never takes the inverse of zero: when r is one
\* of 0..d the fast path returns points[r] before any inverse is computed,
\* and otherwise every inverted quantity is nonzero.
C27_NoInverseOfZero ==
    (pc = "done" /\ Len(args.points) - 1 < P) =>
        /\ result.ok
        /\ args.r < Len(args.points) =>
              /\ ule_in_set(args.points, args.r)
              /\ result.val = args.points[args.r + 1]
        /\ args.r >= Len(args.points) =>
              /\ ule_first_loop(Len(args.points), args.r, Len(args.points) - 1)[2] # 0
              /\ \A i \in 1 .. Len(args.points) - 1 : ule_inverted(args.r, i) # 0

\* What the code does: below d + 1 = characteristic the claim holds; for a
\* list of as many points as the field has elements, F::from(points.len())
\* is zero, the fast path never fires, and eval_ule inverts (r - r) * r = 0
\* for every r but 0.
NoInverseOfZeroBelowFullDegree ==
    pc = "done" =>
        IF Len(args.points) < P
        THEN /\ result.ok
             /\ args.r < Len(args.points) =>
                   /\ ule_in_set(args.points, args.r)
                   /\ result.val = args.points[args.r + 1]
             /\ args.r >= Len(args.points) =>
                   /\ ule_first_loop(Len(args.points), args.r, Len(args.points) - 1)[2] # 0
                   /\ \A i \in 1 .. Len(args.points) - 1 : ule_inverted(args.r, i) # 0
        ELSE /\ ~ule_in_set(args.points, args.r)
             /\ result.ok <=> args.r = 0
             /\ args.r # 0 => ule_inverted(args.r, args.r) = 0

====
